---------------------------- MODULE Spec2Model ----------------------------
(***************************************************************************)
(* Model of logix_trend_converter/converter.py: the sidecar (.IDX) header  *)
(* parser, the placeholder namer, the timestamp reconstruction and the     *)
(* convert_file_to_pd_dataframe pipeline.                                  *)
(*                                                                         *)
(* Text (file content, column labels, pen names) is a sequence of one-     *)
(* character strings, so that slicing, padding and the regular expression  *)
(* are computed character by character as the code computes them.          *)
(***************************************************************************)
EXTENDS Integers, Sequences, FiniteSets, TLC

VARIABLES
    pc,                 \* position in the function being executed
    args,               \* the arguments of the call
    sidecar,            \* the sidecar file as the file system showed it when probed
    raw,                \* the columns of the table the binary decoder returned
    rows,               \* the (Date, Time, Millitm) cells of the table, per row
    df,                 \* the data frame: its columns, in order
    n_status_columns,   \* converter.py:257
    header_dict,        \* converter.py:273/277/290/296, or the parser's result
    parsed,             \* the series _parse_date_column returned, per row
    outcome,            \* "running", "returned" or the exception raised
    raisedAt,           \* the line of converter.py that raised, 0 when none did
    log,                \* the warnings emitted
    bytesRead           \* whether the sidecar file has been opened and read

vars == <<pc, args, sidecar, raw, rows, df, n_status_columns, header_dict,
          parsed, outcome, raisedAt, log, bytesRead>>

---------------------------------------------------------------------------
(* Bounds of the model *)

\* longest sidecar text enumerated for the direct calls of _parse_header_file
MaxTextLen == 5
\* most pen columns ("0", "1", ...) of a raw table
MaxPens == 2
\* most status columns ("Sts_00", "Sts_01", ...) of a raw table
MaxStatus == 2

---------------------------------------------------------------------------
(* Characters and text *)

\* the ASCII characters \s matches (the vertical tab is left out)
Whitespace == {" ", "\t", "\n", "\r", "\f"}
DigitChars == <<"0", "1", "2", "3", "4", "5", "6", "7", "8", "9">>
IsSpace(c) == c \in Whitespace
IsDigit(c) == \E i \in 1..10 : DigitChars[i] = c

\* the value of a digit character
DigitVal(c) == (CHOOSE i \in 1..10 : DigitChars[i] = c) - 1

\* str(n) for a non-negative integer: its decimal digits
RECURSIVE Str(_)
Str(n) == IF n < 10 THEN <<DigitChars[n + 1]>>
          ELSE Str(n \div 10) \o <<DigitChars[(n % 10) + 1]>>

\* int(s) for a string of decimal digits
RECURSIVE IntOf(_)
IntOf(s) == IF s = <<>> THEN 0
            ELSE 10 * IntOf(SubSeq(s, 1, Len(s) - 1)) + DigitVal(s[Len(s)])

RECURSIVE Pow10(_)
Pow10(k) == IF k = 0 THEN 1 ELSE 10 * Pow10(k - 1)

RECURSIVE Zeros(_)
Zeros(k) == IF k <= 0 THEN <<>> ELSE <<"0">> \o Zeros(k - 1)

\* the format specification "0>w": right-align in a field of at least w
\* characters, filling with "0" on the left; a longer string is left as is
PadLeftZero(s, w) == Zeros(w - Len(s)) \o s

\* Python's s[0:k]
Prefix(s, k) == SubSeq(s, 1, IF Len(s) < k THEN Len(s) ELSE k)

StsPrefix == <<"S", "t", "s", "_">>
MarkerName == <<"M", "a", "r", "k", "e", "r">>
DateName == <<"D", "a", "t", "e">>
TimeName == <<"T", "i", "m", "e">>
MillitmName == <<"M", "i", "l", "l", "i", "t", "m">>
DefaultDatetimeName == <<"d", "a", "t", "e", "t", "i", "m", "e">>
DefaultPrefix == <<"P", "e", "n", "_">>

---------------------------------------------------------------------------
(* Python values: None, dict (insertion ordered), dict keys of type str/int *)

NoneVal == [kind |-> "None", items |-> <<>>]
Dict(items) == [kind |-> "dict", items |-> items]
StrKey(s) == [t |-> "str", v |-> s]
\* an int key never equals a str key; v keeps the integer as its digits
IntKey(i) == [t |-> "int", v |-> Str(i)]

\* d[k] = v on an insertion-ordered dict: a key already present keeps its
\* place and takes the new value
DictSet(items, k, v) ==
    IF \E i \in 1..Len(items) : items[i][1] = k
    THEN [i \in 1..Len(items) |-> IF items[i][1] = k THEN <<k, v>> ELSE items[i]]
    ELSE Append(items, <<k, v>>)

HasKey(d, k) == \E i \in 1..Len(d.items) : d.items[i][1] = k
Get(d, k) == d.items[CHOOSE i \in 1..Len(d.items) : d.items[i][1] = k][2]

---------------------------------------------------------------------------
(* _parse_header_file *)

\* re: the end of the longest run of digits / of non-whitespace from p
RECURSIVE DigitsEnd(_, _)
DigitsEnd(s, p) == IF p <= Len(s) /\ IsDigit(s[p]) THEN DigitsEnd(s, p + 1) ELSE p

RECURSIVE NonSpaceEnd(_, _)
NonSpaceEnd(s, p) == IF p <= Len(s) /\ ~IsSpace(s[p]) THEN NonSpaceEnd(s, p + 1) ELSE p

\* whether \s\b(\d+)(\S*)\s? matches at position p: a whitespace character
\* followed by a digit (\b always holds between the two)
MatchAt(s, p) == IsSpace(s[p]) /\ p + 1 <= Len(s) /\ IsDigit(s[p + 1])

\* the two groups of the match at p
MatchGroups(s, p) ==
    LET de == DigitsEnd(s, p + 1)
        ne == NonSpaceEnd(s, de)
    IN  <<SubSeq(s, p + 1, de - 1), SubSeq(s, de, ne - 1)>>

\* the position after the match at p: the trailing \s? takes one whitespace
\* character when there is one
MatchEnd(s, p) ==
    LET ne == NonSpaceEnd(s, DigitsEnd(s, p + 1))
    IN  IF ne <= Len(s) /\ IsSpace(s[ne]) THEN ne + 1 ELSE ne

\* re.findall from position p: leftmost matches, each search starting where
\* the previous match ended
RECURSIVE FindAllFrom(_, _)
FindAllFrom(s, p) ==
    IF p > Len(s) THEN <<>>
    ELSE IF MatchAt(s, p)
         THEN <<MatchGroups(s, p)>> \o FindAllFrom(s, MatchEnd(s, p))
         ELSE FindAllFrom(s, p + 1)

FindAll(s) == FindAllFrom(s, 1)

\* {k: v for (k, v) in tokens}
RECURSIVE DictOfTokens(_, _)
DictOfTokens(tokens, acc) ==
    IF tokens = <<>> THEN acc
    ELSE DictOfTokens(Tail(tokens), DictSet(acc, StrKey(Head(tokens)[1]), Head(tokens)[2]))

\* the file system's view of a path
MissingFile == [exists |-> FALSE, isfile |-> FALSE, decodable |-> FALSE, text |-> <<>>]
Directory == [exists |-> TRUE, isfile |-> FALSE, decodable |-> FALSE, text |-> <<>>]
\* a file whose bytes make decode() raise UnicodeDecodeError, the case the
\* handler at lines 132-136 is written for (the cp850 table itself assigns a
\* character to every byte value)
Undecodable == [exists |-> TRUE, isfile |-> TRUE, decodable |-> FALSE, text |-> <<>>]
TextFile(t) == [exists |-> TRUE, isfile |-> TRUE, decodable |-> TRUE, text |-> t]
\* the value of `sidecar` before the path is looked at
Unprobed == [exists |-> FALSE, isfile |-> FALSE, decodable |-> FALSE, text |-> <<"?">>]

WarnDecode == "IDX decode error"
WarnEmpty == "IDX appears empty"
WarnNoEffect == "datetime options had no effect"

Raised(e, line) == [exc |-> e, line |-> line, value |-> NoneVal, read |-> FALSE, warned |-> {}]
Returned(v, w) == [exc |-> "none", line |-> 0, value |-> v, read |-> TRUE, warned |-> w]

\* the result of the body once decoding succeeded (lines 123-148)
ParseDecodedEmptyDict(text) ==
    IF Len(text) = 0 \/ Len(FindAll(text)) = 0
    THEN Returned(Dict(<<>>), {WarnEmpty})
    ELSE Returned(Dict(DictOfTokens(FindAll(text), <<>>)), {})

ParseDecoded(text) ==
    IF Len(text) = 0 \/ Len(FindAll(text)) = 0
    THEN Returned(NoneVal, {WarnEmpty})
    ELSE Returned(Dict(DictOfTokens(FindAll(text), <<>>)), {})

\* _parse_header_file(locator) where the locator has type `kind` and names `file`
parse_header_file_absorbs_missing(kind, file) ==
    IF kind \notin {"str", "Path"} THEN Raised("TypeError", 103)
    ELSE IF ~file.exists \/ ~file.isfile THEN Returned(NoneVal, {WarnEmpty})
    ELSE IF ~file.decodable THEN Returned(NoneVal, {WarnDecode})
    ELSE ParseDecoded(file.text)

parse_header_file(kind, file) ==
    IF kind \notin {"str", "Path"} THEN Raised("TypeError", 103)
    ELSE IF ~file.exists \/ ~file.isfile THEN Raised("ValueError", 109)
    ELSE IF ~file.decodable THEN Returned(NoneVal, {WarnDecode})
    ELSE ParseDecoded(file.text)

---------------------------------------------------------------------------
(* Direct calls of _parse_header_file (the tests' entry point) *)

RECURSIVE TextsUpTo(_)
TextsUpTo(n) ==
    IF n = 0 THEN {<<>>}
    ELSE LET shorter == TextsUpTo(n - 1)
         IN  shorter \cup {Append(t, c) : t \in {u \in shorter : Len(u) = n - 1},
                                           c \in {" ", "0", "1", "N"}}

ExampleText == <<" ", "0", "N", "1", "0", "0", ":", "0", " ", "1", "F", "1", "5",
                 "0", ":", "1", " ", "2", "B", "2", "0", "0", ".", "0", "/", "0">>

\* the types of a locator argument: the two accepted ones and another one
LocatorKinds == {"str", "Path", "float"}

HeaderTexts == TextsUpTo(MaxTextLen) \cup {ExampleText}

HeaderFiles == {MissingFile, Directory, Undecodable} \cup {TextFile(t) : t \in HeaderTexts}

NoArgs == [dbf |-> "Path", header |-> "None", keep_status_columns |-> FALSE,
           keep_marker_column |-> FALSE,
           missing_header_file_column_prefix |-> DefaultPrefix,
           parsed_datetime_column_name |-> NoneVal,
           drop_original_datetime_column |-> FALSE,
           put_parsed_datetime_column_first |-> TRUE]

InitHeader ==
    /\ pc = "parse_header_file"
    /\ \E k \in LocatorKinds : args = [NoArgs EXCEPT !.header = k]
    /\ sidecar \in HeaderFiles
    /\ raw = <<>>
    /\ rows = <<>>
    /\ df = <<>>
    /\ n_status_columns = 0
    /\ header_dict = NoneVal
    /\ parsed = <<>>
    /\ outcome = "running"
    /\ raisedAt = 0
    /\ log = {}
    /\ bytesRead = FALSE

CallParseHeaderFile ==
    /\ pc = "parse_header_file"
    /\ LET r == parse_header_file(args.header, sidecar)
       IN  /\ header_dict' = r.value
           /\ outcome' = IF r.exc = "none" THEN "returned" ELSE r.exc
           /\ raisedAt' = r.line
           /\ log' = log \cup r.warned
           /\ bytesRead' = r.read
    /\ pc' = "parse_header_file_done"
    /\ UNCHANGED <<args, sidecar, raw, rows, df, n_status_columns, parsed>>

NextHeader == CallParseHeaderFile

SpecHeader == InitHeader /\ [][NextHeader]_vars

---------------------------------------------------------------------------
(* _parse_date_column *)

\* the largest value of the Millitm field (converter.py:39, "format: ###")
MilliMax == 999

\* a column of the data frame: its label, and `orig`, the label of the raw
\* column whose cells it holds (ParsedSrc for the reconstructed timestamps)
Col(name, orig) == [name |-> name, orig |-> orig]
RawCol(name) == Col(name, name)
ParsedSrc == <<"<parsed>">>

Labels(frame) == {frame[i].name : i \in 1..Len(frame)}

\* %f of the format: one to six digits, read as a decimal fraction of a
\* second, so that missing digits count as zeros on the right; microseconds
ParseFraction(s) == IntOf(s) * Pow10(6 - Len(s))

\* lines 63-65: the Millitm cell formatted with "0>3"
MillisecondsStrUnpadded(m) == Str(m)

MillisecondsStr(m) == PadLeftZero(Str(m), 3)

\* lines 68-75 for one row: "<Date> <Time>.<milliseconds>" parsed under
\* "%Y-%m-%d %H:%M:%S.%f"; the date and the time fields are matched field
\* for field, the fraction is scaled by ParseFraction
Reconstruct(row) ==
    [date |-> row.Date, time |-> row.Time,
     micro |-> ParseFraction(MillisecondsStr(row.Millitm))]

\* _parse_date_column(df): the series, or ValueError (line 60)
parse_date_column(frame, rws) ==
    IF Cardinality({MillitmName, DateName, TimeName} \cap Labels(frame)) < 3
    THEN [exc |-> "ValueError", line |-> 60, value |-> <<>>]
    ELSE [exc |-> "none", line |-> 0,
          value |-> [i \in 1..Len(rws) |-> Reconstruct(rws[i])]]

---------------------------------------------------------------------------
(* Direct calls of _parse_date_column *)

Dates == {"2023-03-23", "2023-03-24"}
Times == {"18:45:20", "18:45:21"}
\* the docstring's examples, and values whose digits agree up to zeros
MillitmSamples == {7, 70, 700, 8, 28, 128}

TimestampFrame == <<RawCol(DateName), RawCol(TimeName), RawCol(MillitmName)>>
FrameWithoutMillitm == <<RawCol(DateName), RawCol(TimeName)>>

\* a frame of two rows: the first takes every Millitm value, the second the
\* sampled ones
InitDate ==
    /\ pc = "parse_date_column"
    /\ args = NoArgs
    /\ sidecar = MissingFile
    /\ raw \in {TimestampFrame, FrameWithoutMillitm}
    /\ df = raw
    /\ \E r1 \in [Date : Dates, Time : Times, Millitm : 0..MilliMax],
          r2 \in [Date : Dates, Time : Times, Millitm : MillitmSamples] :
            rows = <<r1, r2>>
    /\ n_status_columns = 0
    /\ header_dict = NoneVal
    /\ parsed = <<>>
    /\ outcome = "running"
    /\ raisedAt = 0
    /\ log = {}
    /\ bytesRead = FALSE

CallParseDateColumn ==
    /\ pc = "parse_date_column"
    /\ LET r == parse_date_column(df, rows)
       IN  /\ parsed' = r.value
           /\ outcome' = IF r.exc = "none" THEN "returned" ELSE r.exc
           /\ raisedAt' = r.line
    /\ pc' = "parse_date_column_done"
    /\ UNCHANGED <<args, sidecar, raw, rows, df, n_status_columns, header_dict,
                   log, bytesRead>>

NextDate == CallParseDateColumn

SpecDate == InitDate /\ [][NextDate]_vars

---------------------------------------------------------------------------
(* _make_placeholder_header_dict *)

\* line 186: {y_int: f"{column_prefix}{y_int:0>2}" for y_int in range(n_columns)}
PlaceholderItems(n, prefix) ==
    [i \in 1..n |-> <<IntKey(i - 1), prefix \o PadLeftZero(Str(i - 1), 2)>>]

make_placeholder_header_dict_one_more(n, prefix) ==
    IF n < 0 THEN [exc |-> "ValueError", line |-> 179, value |-> NoneVal]
    ELSE [exc |-> "none", line |-> 0, value |-> Dict(PlaceholderItems(n + 1, prefix))]

\* n_columns is an int and column_prefix a str at the only call (line 296)
make_placeholder_header_dict(n, prefix) ==
    IF n < 1 THEN [exc |-> "ValueError", line |-> 179, value |-> NoneVal]
    ELSE [exc |-> "none", line |-> 0, value |-> Dict(PlaceholderItems(n, prefix))]

---------------------------------------------------------------------------
(* Data frame operations *)

IsStatus(label) == Prefix(label, 4) = StsPrefix

\* df.drop(columns=labels): the columns with other labels, in order
DropLabels(frame, labels) ==
    LET Keep(c) == c.name \notin labels IN SelectSeq(frame, Keep)

\* df.rename(columns=d): a label that is a key of d is replaced by its value;
\* the labels are str, so only a str key can be equal to one
RenameColumns(frame, d) ==
    [i \in 1..Len(frame) |->
        IF HasKey(d, StrKey(frame[i].name))
        THEN Col(Get(d, StrKey(frame[i].name)), frame[i].orig)
        ELSE frame[i]]

\* df[label] = series: the column of that label takes the series' cells, a
\* new label is appended as the last column
SetColumn(frame, label) ==
    IF label \in Labels(frame)
    THEN [i \in 1..Len(frame) |->
            IF frame[i].name = label THEN Col(label, ParsedSrc) ELSE frame[i]]
    ELSE Append(frame, Col(label, ParsedSrc))

\* col = df.pop(label); df.insert(loc=0, column=col.name, value=col)
MoveFirst(frame, label) ==
    LET i == CHOOSE j \in 1..Len(frame) : frame[j].name = label
    IN  <<frame[i]>> \o DropLabels(frame, {label})

---------------------------------------------------------------------------
(* convert_file_to_pd_dataframe *)

\* lines 256-259: the status columns are counted, then dropped
StatusCols(frame) == {frame[i].name : i \in {j \in 1..Len(frame) : IsStatus(frame[j].name)}}

StatusCount(frame) ==
    Cardinality({j \in 1..Len(frame) : IsStatus(frame[j].name)})

DropStatusKeepsAll(frame, keep) == frame

DropStatus(frame, keep) ==
    IF ~keep /\ StatusCount(frame) > 0
    THEN DropLabels(frame, StatusCols(frame))
    ELSE frame

\* lines 262-263
DropMarker(frame, keep) ==
    IF ~keep /\ MarkerName \in Labels(frame)
    THEN DropLabels(frame, {MarkerName})
    ELSE frame

\* lines 266-292: the header mapping, from the supplied locator or from the
\* same-stem .IDX file (a Path, when it exists)
resolve_header(kind, file) ==
    IF kind = "None"
    THEN IF file.exists
         THEN parse_header_file("Path", file)
         ELSE [exc |-> "none", line |-> 0, value |-> NoneVal, read |-> FALSE, warned |-> {}]
    ELSE IF kind \notin {"str", "Path"}
         THEN Raised("TypeError", 286)
         ELSE parse_header_file(kind, file)

\* lines 305-323: the new frame, the series and the warnings, or the error
datetime_block_always_drops(frame, a, rws) ==
    LET r == parse_date_column(frame, rws)
    IN  IF a.parsed_datetime_column_name.kind = "None"
        THEN [exc |-> "none", line |-> 0,
              df |-> IF a.drop_original_datetime_column
                     THEN DropLabels(frame, {DateName, TimeName, MillitmName})
                     ELSE frame,
              parsed |-> <<>>,
              warned |-> IF a.drop_original_datetime_column
                            \/ a.put_parsed_datetime_column_first
                         THEN {WarnNoEffect} ELSE {}]
        ELSE IF r.exc # "none"
        THEN [exc |-> r.exc, line |-> r.line, df |-> frame, parsed |-> <<>>, warned |-> {}]
        ELSE LET name == a.parsed_datetime_column_name.name
                 added == SetColumn(frame, name)
                 dropped == IF a.drop_original_datetime_column
                            THEN DropLabels(added, {DateName, TimeName, MillitmName})
                            ELSE added
                 moved == IF a.put_parsed_datetime_column_first
                          THEN MoveFirst(dropped, name)
                          ELSE dropped
             IN  [exc |-> "none", line |-> 0, df |-> moved, parsed |-> r.value,
                  warned |-> {}]

datetime_block(frame, a, rws) ==
    LET r == parse_date_column(frame, rws)
    IN  IF a.parsed_datetime_column_name.kind = "None"
        THEN [exc |-> "none", line |-> 0, df |-> frame, parsed |-> <<>>,
              warned |-> IF a.drop_original_datetime_column
                            \/ a.put_parsed_datetime_column_first
                         THEN {WarnNoEffect} ELSE {}]
        ELSE IF r.exc # "none"
        THEN [exc |-> r.exc, line |-> r.line, df |-> frame, parsed |-> <<>>, warned |-> {}]
        ELSE LET name == a.parsed_datetime_column_name.name
                 added == SetColumn(frame, name)
                 dropped == IF a.drop_original_datetime_column
                            THEN DropLabels(added, {DateName, TimeName, MillitmName})
                            ELSE added
                 moved == IF a.put_parsed_datetime_column_first
                          THEN MoveFirst(dropped, name)
                          ELSE dropped
             IN  [exc |-> "none", line |-> 0, df |-> moved, parsed |-> r.value,
                  warned |-> {}]

StrVal(s) == [kind |-> "str", name |-> s]

\* the tables the binary decoder returns: Date and Time, Millitm, an optional
\* Marker, then per pen i its value column "i" and its status column "Sts_ii"
RECURSIVE PenColumns(_, _, _)
PenColumns(i, nPens, nSts) ==
    IF i >= nPens /\ i >= nSts THEN <<>>
    ELSE (IF i < nPens THEN <<RawCol(Str(i))>> ELSE <<>>)
         \o (IF i < nSts THEN <<RawCol(StsPrefix \o PadLeftZero(Str(i), 2))>> ELSE <<>>)
         \o PenColumns(i + 1, nPens, nSts)

RawTable(nPens, nSts, marker, millitm) ==
    <<RawCol(DateName), RawCol(TimeName)>>
    \o (IF millitm THEN <<RawCol(MillitmName)>> ELSE <<>>)
    \o (IF marker THEN <<RawCol(MarkerName)>> ELSE <<>>)
    \o PenColumns(0, nPens, nSts)

RawTables ==
    {RawTable(p, n, m, t) : p \in 0..MaxPens, n \in 0..MaxStatus,
                            m \in BOOLEAN, t \in BOOLEAN}

SampleRows == <<[Date |-> "2023-03-23", Time |-> "18:45:20", Millitm |-> 8],
                [Date |-> "2023-03-23", Time |-> "18:45:20", Millitm |-> 7]>>

\* sidecar contents: tokens one space apart (the documented example), tokens
\* two spaces apart, a pen named like a status column, text without a
\* token, and the empty file
WideText == <<" ", "0", "N", "7", " ", " ", "1", "F", "8">>
StsText == <<" ", "1", "S", "t", "s", "_", "9">>
NoTokenText == <<"N", "7">>
SidecarTexts == {<<>>, NoTokenText, ExampleText, WideText, StsText}
SidecarFiles == {MissingFile, Directory, Undecodable} \cup {TextFile(t) : t \in SidecarTexts}

ConvertArgs ==
    [dbf : {"Path", "float"},
     header : {"None"} \cup LocatorKinds,
     keep_status_columns : BOOLEAN,
     keep_marker_column : BOOLEAN,
     missing_header_file_column_prefix : {DefaultPrefix, StsPrefix},
     parsed_datetime_column_name :
        {NoneVal, StrVal(DefaultDatetimeName), StrVal(MarkerName)},
     drop_original_datetime_column : BOOLEAN,
     put_parsed_datetime_column_first : BOOLEAN]

Init ==
    /\ pc = "start"
    /\ args \in ConvertArgs
    /\ sidecar = Unprobed
    /\ raw = <<>>
    /\ rows = <<>>
    /\ df = <<>>
    /\ n_status_columns = 0
    /\ header_dict = NoneVal
    /\ parsed = <<>>
    /\ outcome = "running"
    /\ raisedAt = 0
    /\ log = {}
    /\ bytesRead = FALSE

Raise(e, line) ==
    /\ pc' = "raised"
    /\ outcome' = e
    /\ raisedAt' = line

\* lines 243-250
CheckDbfLocator ==
    /\ pc = "start"
    /\ IF args.dbf \in {"str", "Path"}
       THEN pc' = "decode" /\ UNCHANGED <<outcome, raisedAt>>
       ELSE Raise("TypeError", 248)
    /\ UNCHANGED <<args, sidecar, raw, rows, df, n_status_columns, header_dict,
                   parsed, log, bytesRead>>

\* line 253: the decoder returns a table
DecodeDbf ==
    /\ pc = "decode"
    /\ \E t \in RawTables : raw' = t /\ df' = t
    /\ rows' = SampleRows
    /\ pc' = "status"
    /\ UNCHANGED <<args, sidecar, n_status_columns, header_dict, parsed, outcome,
                   raisedAt, log, bytesRead>>

\* line 253: the decoder fails, and its error propagates
DecodeDbfFails ==
    /\ pc = "decode"
    /\ Raise("DbfError", 253)
    /\ UNCHANGED <<args, sidecar, raw, rows, df, n_status_columns, header_dict,
                   parsed, log, bytesRead>>

\* lines 256-259
DropStatusColumns ==
    /\ pc = "status"
    /\ n_status_columns' = StatusCount(df)
    /\ df' = DropStatus(df, args.keep_status_columns)
    /\ pc' = "marker"
    /\ UNCHANGED <<args, sidecar, raw, rows, header_dict, parsed, outcome,
                   raisedAt, log, bytesRead>>

\* lines 262-263
DropMarkerColumn ==
    /\ pc = "marker"
    /\ df' = DropMarker(df, args.keep_marker_column)
    /\ pc' = "header"
    /\ UNCHANGED <<args, sidecar, raw, rows, n_status_columns, header_dict, parsed,
                   outcome, raisedAt, log, bytesRead>>

\* lines 266-292; the file system answers for the sidecar path
ResolveHeader ==
    /\ pc = "header"
    /\ sidecar' \in SidecarFiles
    /\ LET r == resolve_header(args.header, sidecar')
       IN  /\ header_dict' = r.value
           /\ log' = log \cup r.warned
           /\ bytesRead' = r.read
           /\ IF r.exc = "none"
              THEN pc' = "placeholder" /\ UNCHANGED <<outcome, raisedAt>>
              ELSE Raise(r.exc, r.line)
    /\ UNCHANGED <<args, raw, rows, df, n_status_columns, parsed>>

\* lines 295-299
MakePlaceholders ==
    /\ pc = "placeholder"
    /\ IF header_dict = Dict(<<>>) \/ header_dict = NoneVal
       THEN LET r == make_placeholder_header_dict(
                        n_status_columns, args.missing_header_file_column_prefix)
            IN  IF r.exc = "none"
                THEN /\ header_dict' = r.value
                     /\ pc' = "rename"
                     /\ UNCHANGED <<outcome, raisedAt>>
                ELSE /\ Raise(r.exc, r.line)
                     /\ UNCHANGED header_dict
       ELSE /\ pc' = "rename"
            /\ UNCHANGED <<header_dict, outcome, raisedAt>>
    /\ UNCHANGED <<args, sidecar, raw, rows, df, n_status_columns, parsed, log,
                   bytesRead>>

\* line 302
RenamePenColumns ==
    /\ pc = "rename"
    /\ df' = RenameColumns(df, header_dict)
    /\ pc' = "datetime"
    /\ UNCHANGED <<args, sidecar, raw, rows, n_status_columns, header_dict, parsed,
                   outcome, raisedAt, log, bytesRead>>

\* lines 305-323
AddDatetimeColumn ==
    /\ pc = "datetime"
    /\ LET r == datetime_block(df, args, rows)
       IN  /\ df' = r.df
           /\ parsed' = r.parsed
           /\ log' = log \cup r.warned
           /\ IF r.exc = "none"
              THEN pc' = "return" /\ UNCHANGED <<outcome, raisedAt>>
              ELSE Raise(r.exc, r.line)
    /\ UNCHANGED <<args, sidecar, raw, rows, n_status_columns, header_dict,
                   bytesRead>>

\* line 326
ReturnFrame ==
    /\ pc = "return"
    /\ pc' = "done"
    /\ outcome' = "returned"
    /\ UNCHANGED <<args, sidecar, raw, rows, df, n_status_columns, header_dict,
                   parsed, raisedAt, log, bytesRead>>

Next ==
    \/ CheckDbfLocator
    \/ DecodeDbf
    \/ DecodeDbfFails
    \/ DropStatusColumns
    \/ DropMarkerColumn
    \/ ResolveHeader
    \/ MakePlaceholders
    \/ RenamePenColumns
    \/ AddDatetimeColumn
    \/ ReturnFrame

Spec == Init /\ [][Next]_vars

\* the two entry points that take a sidecar locator, together
InitCalls == Init \/ InitHeader
NextCalls == Next \/ NextHeader
SpecCalls == InitCalls /\ [][NextCalls]_vars

\* no two columns of the frame share a label
UniqueLabels == \A i, j \in 1..Len(df) : df[i].name = df[j].name => i = j

---------------------------------------------------------------------------
(* Properties of _parse_header_file (SpecHeader) *)

HeaderCallDone == pc = "parse_header_file_done"
LocatorIsPath == args.header \in {"str", "Path"}
RegularFile == sidecar.exists /\ sidecar.isfile

\* no whitespace character of the text is followed by a digit
NoToken(text) ==
    ~\E p \in 1..(Len(text) - 1) : IsSpace(text[p]) /\ IsDigit(text[p + 1])

\* the whitespace-separated words of a text, in order
RECURSIVE SkipSpace(_, _)
SkipSpace(s, p) == IF p <= Len(s) /\ IsSpace(s[p]) THEN SkipSpace(s, p + 1) ELSE p

RECURSIVE WordsFrom(_, _)
WordsFrom(s, p) ==
    LET b == SkipSpace(s, p)
        e == NonSpaceEnd(s, b)
    IN  IF b > Len(s) THEN <<>> ELSE <<SubSeq(s, b, e - 1)>> \o WordsFrom(s, e)

Words(s) == WordsFrom(s, 1)

TokenIndex(w) == SubSeq(w, 1, DigitsEnd(w, 1) - 1)
TokenName(w) == SubSeq(w, DigitsEnd(w, 1), Len(w))

\* the token grammar: every word is <digits><name> and follows whitespace
InGrammar(s) ==
    /\ Len(s) > 0
    /\ IsSpace(s[1])
    /\ Words(s) # <<>>
    /\ \A j \in 1..Len(Words(s)) :
          IsDigit(Words(s)[j][1]) /\ TokenName(Words(s)[j]) # <<>>

\* the mapping has, for every token, its index mapped to the name of the last
\* token carrying that index
MapsEveryToken(d, s) ==
    /\ d.kind = "dict"
    /\ \A j \in 1..Len(Words(s)) :
          LET k == TokenIndex(Words(s)[j])
              last == CHOOSE m \in 1..Len(Words(s)) :
                         /\ TokenIndex(Words(s)[m]) = k
                         /\ \A m2 \in 1..Len(Words(s)) :
                               TokenIndex(Words(s)[m2]) = k => m2 <= m
          IN  /\ HasKey(d, StrKey(k))
              /\ Get(d, StrKey(k)) = TokenName(Words(s)[last])

\* C2: for every sidecar text in the token grammar (tokens preceded and
\* separated by whitespace, a single whitespace character included),
\* _parse_header_file returns a mapping with an entry for every token's index,
\* a repeated index mapping to its last name; the documented example yields
\* exactly 0->N100:0, 1->F150:1, 2->B200.0/0.
C2_EveryTokenHasEntry ==
    (HeaderCallDone /\ LocatorIsPath /\ RegularFile /\ sidecar.decodable
        /\ InGrammar(sidecar.text))
    => /\ outcome = "returned"
       /\ MapsEveryToken(header_dict, sidecar.text)
       /\ sidecar.text = ExampleText =>
             header_dict = Dict(<<
                <<StrKey(<<"0">>), <<"N", "1", "0", "0", ":", "0">> >>,
                <<StrKey(<<"1">>), <<"F", "1", "5", "0", ":", "1">> >>,
                <<StrKey(<<"2">>), <<"B", "2", "0", "0", ".", "0", "/", "0">> >> >>)

C8_EmptyFileRaisesValueError ==
    (HeaderCallDone /\ LocatorIsPath /\ sidecar = TextFile(<<>>))
    => outcome = "ValueError"

---------------------------------------------------------------------------
(* Properties of _parse_date_column (SpecDate) *)

DateCallDone == pc = "parse_date_column_done"

\* C3: a Millitm value m in 0..999 is left-padded to exactly 3 digits and the
\* timestamp lies exactly m milliseconds past the second given by Date and
\* Time; two distinct (date, time, milliseconds) triples never reconstruct to
\* the same timestamp.
C3_MillisecondsPastTheSecond ==
    (DateCallDone /\ outcome = "returned")
    => /\ Len(parsed) = Len(rows)
       /\ \A i \in 1..Len(rows) :
             /\ Len(MillisecondsStr(rows[i].Millitm)) = 3
             /\ parsed[i].date = rows[i].Date
             /\ parsed[i].time = rows[i].Time
             /\ parsed[i].micro = 1000 * rows[i].Millitm
       /\ \A i, j \in 1..Len(rows) : rows[i] # rows[j] => parsed[i] # parsed[j]

\* 7 and 70 milliseconds past the same second were reconstructed
C3_Witness ==
    /\ DateCallDone /\ outcome = "returned"
    /\ rows[1] = [Date |-> "2023-03-23", Time |-> "18:45:20", Millitm |-> 7]
    /\ rows[2] = [Date |-> "2023-03-23", Time |-> "18:45:20", Millitm |-> 70]
    /\ parsed[1].micro = 7000 /\ parsed[2].micro = 70000

---------------------------------------------------------------------------
(* Properties of convert_file_to_pd_dataframe (Spec) *)

Terminated == pc \in {"done", "raised"}
HeaderResolved == sidecar # Unprobed
HasTimestampFields(frame) == {DateName, TimeName, MillitmName} \subseteq Labels(frame)
PrefixArg == args.missing_header_file_column_prefix
Cols(frame) == {frame[i] : i \in 1..Len(frame)}

\* index i as the placeholder names write it: at least two digits
TwoDigits(i) == IF i < 10 THEN <<"0">> \o Str(i) ELSE Str(i)

\* no sidecar was supplied and no same-stem .IDX file was found
NoSidecarAtAll == args.header = "None" /\ HeaderResolved /\ ~sidecar.exists

\* C1: for every raw table with the Date, Time and Millitm fields (any number
\* of "Sts_" columns, none included), the conversion ends with the table
\* returned, never with an error, when no sidecar is supplied and none found,
\* when the supplied sidecar is missing, and when the sidecar is empty, does
\* not decode or holds no token.
C1_SidecarTroubleNeverAborts ==
    (/\ Terminated /\ HeaderResolved /\ HasTimestampFields(raw)
     /\ \/ NoSidecarAtAll
        \/ args.header \in {"str", "Path"} /\ ~sidecar.exists
        \/ /\ args.header \in {"None", "str", "Path"}
           /\ sidecar.isfile
           /\ \/ ~sidecar.decodable
              \/ Len(sidecar.text) = 0
              \/ NoToken(sidecar.text))
    => outcome = "returned"

\* the placeholder step has been passed, or has raised
PastPlaceholders ==
    \/ pc \in {"rename", "datetime", "return", "done"}
    \/ pc = "raised" /\ raisedAt \in {179, 60}

C5_NoStatusOrMarkerLabelInResult ==
    pc = "done"
    => /\ ~args.keep_status_columns => \A c \in Cols(df) : ~IsStatus(c.name)
       /\ ~args.keep_marker_column => \A c \in Cols(df) : c.name # MarkerName

\* the column is the timestamp column, under the configured name
IsTimestampColumn(c) ==
    /\ c.orig = ParsedSrc
    /\ args.parsed_datetime_column_name.kind = "str"
    /\ c.name = args.parsed_datetime_column_name.name

\* the column got its label from the header mapping
IsRenamedColumn(c) ==
    /\ c.orig # ParsedSrc
    /\ c.name # c.orig
    /\ HasKey(header_dict, StrKey(c.orig))
    /\ c.name = Get(header_dict, StrKey(c.orig))

\* C5 (amended): in every returned table, with keep_status_columns=false no
\* column of the raw table whose name starts with "Sts_" remains, and with
\* keep_marker_column=false the raw "Marker" column does not remain; a column
\* of the result that carries such a name is a column the header mapping
\* renamed or the timestamp column.
C5_RawStatusAndMarkerColumnsDropped ==
    pc = "done"
    => /\ ~args.keep_status_columns =>
             \A c \in Cols(df) :
                /\ ~IsStatus(c.orig)
                /\ IsStatus(c.name) => IsRenamedColumn(c) \/ IsTimestampColumn(c)
       /\ ~args.keep_marker_column =>
             \A c \in Cols(df) :
                /\ c.orig # MarkerName
                /\ c.name = MarkerName => IsRenamedColumn(c) \/ IsTimestampColumn(c)

\* raw status and Marker columns were dropped, and the sidecar named a pen
\* column "Sts_9"
C5_Witness ==
    /\ pc = "done" /\ ~args.keep_status_columns /\ ~args.keep_marker_column
    /\ \E c \in Cols(raw) : IsStatus(c.name)
    /\ MarkerName \in Labels(raw)
    /\ \E c \in Cols(df) : IsStatus(c.name) /\ IsRenamedColumn(c)

\* the header step has been passed, or has raised
PastHeader ==
    /\ HeaderResolved
    /\ pc \in {"placeholder", "rename", "datetime", "return", "done", "raised"}

\* C7: _parse_header_file raises TypeError for a locator that is neither str
\* nor Path and ValueError for a path that does not exist or is no regular
\* file, before any byte is read and without the absence signal; both leave
\* convert_file_to_pd_dataframe as raised when the locator was supplied.
C7_LocatorErrorsAreFatal ==
    /\ HeaderCallDone =>
          IF ~LocatorIsPath
          THEN outcome = "TypeError" /\ ~bytesRead /\ log = {}
          ELSE ~RegularFile => outcome = "ValueError" /\ ~bytesRead /\ log = {}
    /\ (PastHeader /\ args.header # "None") =>
          IF ~LocatorIsPath
          THEN pc = "raised" /\ outcome = "TypeError" /\ ~bytesRead /\ log = {}
          ELSE ~RegularFile =>
                  /\ pc = "raised" /\ outcome = "ValueError" /\ raisedAt = 109
                  /\ ~bytesRead /\ log = {}

\* a supplied locator named a missing file and the conversion raised
C7_Witness ==
    /\ pc = "raised" /\ args.header = "str" /\ sidecar = MissingFile
    /\ outcome = "ValueError" /\ raisedAt = 109 /\ ~bytesRead

TimestampCols(frame) ==
    LET IsField(c) == c.orig \in {DateName, TimeName, MillitmName}
    IN  SelectSeq(frame, IsField)

\* C9: with parsed_datetime_column_name=None no timestamp column is added and
\* the Date, Time and Millitm columns stay as they are, neither dropped nor
\* moved, whatever drop_original_datetime_column and
\* put_parsed_datetime_column_first; a warning is emitted if either is true,
\* and no exception is raised for the combination.
C9_DisabledTimestampLeavesFieldsAlone ==
    args.parsed_datetime_column_name = NoneVal
    => /\ pc \in {"return", "done"} =>
             /\ \A c \in Cols(df) : c.orig # ParsedSrc
             /\ parsed = <<>>
             /\ TimestampCols(df) = TimestampCols(raw)
             /\ WarnNoEffect \in log <=>
                   (args.drop_original_datetime_column
                      \/ args.put_parsed_datetime_column_first)
       /\ pc = "raised" => raisedAt # 60

\* drop_original_datetime_column was asked for without a timestamp column:
\* the three fields are still there and the warning was given
C9_Witness ==
    /\ pc = "done" /\ args.parsed_datetime_column_name = NoneVal
    /\ args.drop_original_datetime_column
    /\ HasTimestampFields(df) /\ WarnNoEffect \in log

\* the placeholder fallback was taken
PlaceholdersTaken ==
    /\ n_status_columns >= 1
    /\ header_dict = Dict(PlaceholderItems(n_status_columns, PrefixArg))

\* C10: a placeholder mapping renames like a decoded one: with n placeholders,
\* the column whose raw name is the digit string of i < n carries
\* prefix + zero-padded i in the returned table, every other column keeps its
\* name.
C10_PlaceholdersRenamePenColumns ==
    (pc = "done" /\ PlaceholdersTaken)
    => \A c \in Cols(df) :
          c.orig # ParsedSrc =>
             IF \E i \in 0..(n_status_columns - 1) : c.orig = Str(i)
             THEN \E i \in 0..(n_status_columns - 1) :
                     c.orig = Str(i) /\ c.name = PrefixArg \o TwoDigits(i)
             ELSE c.name = c.orig

===========================================================================
